---- MODULE Spec2Model ----
(***************************************************************************)
(* A model of thulibfront (src/main.py): the browser login that produces   *)
(* a LibQuery, the LibQuery traversal operations, and the date arithmetic  *)
(* they rely on.                                                           *)
(***************************************************************************)
EXTENDS Integers, Sequences, FiniteSets, TLC

VARIABLES
    \* the wall clock and the process's time zone
    now, tz,
    \* DateResolver runs: the dates resolved for Day.Today and Day.Tomorrow
    resolved,
    \* webvpn_login / webvpn_login_manual
    variant, pc, browser, url, seenUrl, slept, cookies, userAgent, jar, idx,
    exc, lib, cleanup, driver,
    \* LibQuery: the last traversal operation
    op, arg, server, gets, request, fetched, outcome, ret

dateVars == <<resolved>>
loginVars == <<variant, pc, browser, url, seenUrl, slept, cookies, userAgent,
               jar, idx, exc, lib, cleanup, driver>>
walkVars == <<op, arg, server, gets, request, fetched, outcome, ret>>
vars == <<now, tz, resolved, variant, pc, browser, url, seenUrl, slept,
          cookies, userAgent, jar, idx, exc, lib, cleanup, driver, op, arg,
          server, gets, request, fetched, outcome, ret>>

----------------------------------------------------------------------------
(* Bounds of the model *)

\* longest list in a payload, longest cookie list of the browser
MaxLen == 2
\* the poll loop's sleep counter saturates here (the loop itself is unbounded)
MaxSlept == 2

----------------------------------------------------------------------------
(* Time: time.time(), time.localtime(), time.strftime() *)

\* 86400 if day == day.Tomorrow else 0
DayOffset(day) == IF day = "Tomorrow" THEN 86400 ELSE 0

\* The zones a process can run in: UTC, a zone without daylight saving and a
\* zone with it (its 2024 transitions, in seconds since the epoch).
Zones ==
    { [name |-> "UTC", std |-> 0, save |-> 0, dstStart |-> 0, dstEnd |-> 0],
      [name |-> "Asia/Shanghai", std |-> 28800, save |-> 0,
       dstStart |-> 0, dstEnd |-> 0],
      [name |-> "America/New_York", std |-> -18000, save |-> 3600,
       dstStart |-> 1710054000, dstEnd |-> 1730613600] }

\* tm_gmtoff of time.localtime(t) in zone z
UtcOffset(z, t) ==
    IF z.save # 0 /\ z.dstStart <= t /\ t < z.dstEnd
    THEN z.std + z.save ELSE z.std

\* floor division and remainder for a positive divisor
FloorDiv(a, b) == a \div b
Mod(a, b) == a % b

\* proleptic Gregorian date of a day number counted from 1970-01-01
CivilFromDays(days) ==
    LET zz == days + 719468
        era == FloorDiv(zz, 146097)
        doe == zz - era * 146097
        yoe == (doe - doe \div 1460 + doe \div 36524 - doe \div 146096) \div 365
        doy == doe - (365 * yoe + yoe \div 4 - yoe \div 100)
        mp == (5 * doy + 2) \div 153
        d == doy - (153 * mp + 2) \div 5 + 1
        m == IF mp < 10 THEN mp + 3 ELSE mp - 9
        y == yoe + era * 400 + (IF m <= 2 THEN 1 ELSE 0)
    IN [year |-> y, month |-> m, day |-> d]

\* time.localtime(t): the broken-down local time in zone z
LocalTime(z, t) ==
    LET loc == t + UtcOffset(z, t)
        date == CivilFromDays(FloorDiv(loc, 86400))
        sod == Mod(loc, 86400)
    IN [year |-> date.year, month |-> date.month, day |-> date.day,
        hour |-> sod \div 3600, minute |-> ((sod % 3600) \div 60),
        second |-> sod % 60]

Digit == <<"0", "1", "2", "3", "4", "5", "6", "7", "8", "9">>
TwoDigits(n) == Digit[((n \div 10) % 10) + 1] \o Digit[(n % 10) + 1]
FourDigits(n) == TwoDigits(n \div 100) \o TwoDigits(n % 100)

\* time.strftime("%Y-%m-%d", tm)
StrfDate(tm) ==
    FourDigits(tm.year) \o "-" \o TwoDigits(tm.month) \o "-" \o TwoDigits(tm.day)

\* time.strftime("%H:%M", tm)
StrfHourMinute(tm) == TwoDigits(tm.hour) \o ":" \o TwoDigits(tm.minute)

\* time.strftime("%Y-%m-%d", time.localtime(time.time() + (86400 if ...)))
ResolveDate(z, t, day) == StrfDate(LocalTime(z, t + DayOffset(day)))

----------------------------------------------------------------------------
(* The calendar, independent of the clock: the day after a calendar date *)

IsLeap(y) == (y % 4 = 0 /\ y % 100 # 0) \/ y % 400 = 0

DaysInMonth(y, m) ==
    IF m = 2 THEN (IF IsLeap(y) THEN 29 ELSE 28)
    ELSE IF m \in {4, 6, 9, 11} THEN 30 ELSE 31

NextCalendarDay(date) ==
    IF date.day < DaysInMonth(date.year, date.month)
    THEN [date EXCEPT !.day = date.day + 1]
    ELSE IF date.month < 12
    THEN [date EXCEPT !.month = date.month + 1, !.day = 1]
    ELSE [year |-> date.year + 1, month |-> 1, day |-> 1]

----------------------------------------------------------------------------
(* The clock instants explored *)

\* 00:00:00 UTC of 2023-12-31, 2024-02-28, 2024-02-29, 2024-03-09,
\* 2024-03-10, 2024-06-30, 2024-11-02, 2024-11-03
BaseDays == {1703980800, 1709078400, 1709164800, 1709942400, 1710028800,
             1719705600, 1730505600, 1730592000}

\* seconds into the day: 00:00:00, 04:30:00, 07:00:00, 12:34:56, 23:30:00
DayParts == {0, 16200, 25200, 45296, 84600}

Instants == {b + p : b \in BaseDays, p \in DayParts}

Days == {"Today", "Tomorrow"}
NoDate == "-"

----------------------------------------------------------------------------
(* DateResolver as a run: the clock is read, then each day tag is resolved *)

InitClock(instants) == now \in instants /\ tz \in Zones

InitDate == resolved = [d \in Days |-> NoDate]

\* the date expression of get_library_sections / get_library_day for one tag
Resolve(day) ==
    /\ resolved[day] = NoDate
    /\ resolved' = [resolved EXCEPT ![day] = ResolveDate(tz, now, day)]
    /\ UNCHANGED <<now, tz>>

ResolveToday == Resolve("Today") /\ UNCHANGED <<loginVars, walkVars>>
ResolveTomorrow == Resolve("Tomorrow") /\ UNCHANGED <<loginVars, walkVars>>

----------------------------------------------------------------------------
(* webvpn_login and webvpn_login_manual *)

LOGIN_URL == "https://webvpn.tsinghua.edu.cn/login?oauth_login=true"
TUNNEL_DOMAIN == "webvpn.tsinghua.edu.cn"
LIBRARY_PREFIX == "https://webvpn.tsinghua.edu.cn/https/77726476706e69737468656265737421e3f24088693c6152301c9aa596522b204c02212b859d0a19"
\* the identity provider's form, where the login page may send the browser
SSO_URL == "https://id.tsinghua.edu.cn/do/off/ui/auth/login/form"
BLANK_URL == "data:,"

\* the pages the browser can be on: the login page the code opens, the
\* identity provider's form, and a page behind the tunnel after login
Urls == {LOGIN_URL, SSO_URL, LIBRARY_PREFIX}
UnauthenticatedUrls == {LOGIN_URL, SSO_URL}

\* Python's `sub in s` for strings
Contains(sub, s) ==
    \E i \in 1..(Len(s) - Len(sub) + 1) : SubSeq(s, i, i + Len(sub) - 1) = sub

\* the poll loop's exit test: not ("webvpn.tsinghua.edu.cn" not in current_url)
RedirectSeen(u) == Contains(TUNNEL_DOMAIN, u)

BrowserCookies ==
    { [name |-> "wengine_vpn_ticket", value |-> "t1",
       domain |-> "webvpn.tsinghua.edu.cn", path |-> "/"],
      [name |-> "refresh", value |-> "1",
       domain |-> "webvpn.tsinghua.edu.cn", path |-> "/login"] }

RECURSIVE SeqsUpTo(_, _)
SeqsUpTo(S, n) ==
    IF n = 0 THEN {<<>>}
    ELSE LET shorter == SeqsUpTo(S, n - 1)
         IN shorter \cup {Append(q, x) : q \in shorter, x \in S}

UserAgents == {"Mozilla/5.0 Chrome/120", "Mozilla/5.0 HeadlessChrome/120"}

NoLib == [made |-> FALSE, session |-> <<>>, headers |-> ""]

\* LibQuery.__init__
LibQuery(session, headers) ==
    [made |-> TRUE, session |-> session, headers |-> headers]

\* session.cookies.set(name, value, domain=, path=)
CookieSet(j, c) ==
    LET Other(x) == ~(x.name = c.name /\ x.domain = c.domain /\ x.path = c.path)
    IN Append(SelectSeq(j, Other),
              [name |-> c.name, value |-> c.value,
               domain |-> c.domain, path |-> c.path])

InitLogin ==
    /\ variant \in {"auto", "manual"}
    /\ pc = "start"
    /\ browser = "none"
    /\ url = BLANK_URL
    /\ seenUrl = BLANK_URL
    /\ slept = 0
    /\ cookies = <<>>
    /\ userAgent = ""
    /\ jar = <<>>
    /\ idx = 0
    /\ exc = "none"
    /\ lib = NoLib
    /\ cleanup = "none"
    /\ driver = "unbound"

\* the state a successful automatic login leaves behind
LoggedIn ==
    /\ variant = "auto"
    /\ pc = "returned"
    /\ browser = "quit"
    /\ url = LIBRARY_PREFIX
    /\ seenUrl = LIBRARY_PREFIX
    /\ slept = 0
    /\ cookies = <<>>
    /\ userAgent = "Mozilla/5.0 Chrome/120"
    /\ jar = <<>>
    /\ idx = 1
    /\ exc = "none"
    /\ lib = LibQuery(<<>>, "Mozilla/5.0 Chrome/120")
    /\ cleanup = "done"
    /\ driver = "bound"

\* the statements of the try block that call into the browser or the jar
TrySteps == {"get", "find_user", "find_pass", "do_login", "poll", "settle",
             "input", "cookies", "user_agent", "session", "transfer",
             "headers"}

\* what can be raised inside the try block
Raisable == {"Exception", "KeyboardInterrupt"}

\* A bug the cleanup could have: the error leaves the function at once.
AfterFailureNoFinally(v, kind) == "raised"

\* where control goes when a statement of the try block raises: the
\* automatic variant has `except Exception`, both have `finally`
AfterFailure(v, kind) ==
    IF v = "auto" /\ kind = "Exception" THEN "except" ELSE "finally"

\* while "webvpn.tsinghua.edu.cn" not in driver.current_url
PollExit(u) == RedirectSeen(u)

Goto(next) == pc' = next

\* driver = webdriver.Chrome(...): the browser is launched and the driver
\* bound to the local name
StartBrowser ==
    /\ pc = "start"
    /\ browser' = "running"
    /\ driver' = "bound"
    /\ Goto("get")
    /\ UNCHANGED <<now, tz, dateVars, walkVars, cleanup, variant, url, seenUrl,
                   slept, cookies, userAgent, jar, idx, exc, lib>>

\* webdriver.Chrome(...) or ChromeDriverManager().install() raises or is
\* interrupted, before or after the browser process has been launched: the
\* statement stands before the try block, so the error reaches the caller at
\* once, with no driver bound and driver.quit() never called
StartBrowserFails ==
    /\ pc = "start"
    /\ browser' \in {"none", "running"}
    /\ \E kind \in Raisable : exc' = kind
    /\ Goto("raised")
    /\ UNCHANGED <<now, tz, dateVars, walkVars, driver, cleanup, variant, url,
                   seenUrl, slept, cookies, userAgent, jar, idx, lib>>

\* driver.get(LOGIN_URL): the browser lands on the login page, or on the
\* identity provider's form if the page redirects there
PageLoad ==
    /\ pc = "get"
    /\ url' \in UnauthenticatedUrls
    /\ Goto(IF variant = "auto" THEN "find_user" ELSE "input")
    /\ UNCHANGED <<now, tz, dateVars, walkVars, driver, cleanup, variant, browser, seenUrl, slept, cookies, userAgent, jar,
                   idx, exc, lib>>

\* driver.find_element(By.ID, "i_user").send_keys(username)
FindUser ==
    /\ pc = "find_user"
    /\ Goto("find_pass")
    /\ UNCHANGED <<now, tz, dateVars, walkVars, driver, cleanup, variant, browser, url, seenUrl, slept, cookies, userAgent,
                   jar, idx, exc, lib>>

\* driver.find_element(By.ID, "i_pass").send_keys(password)
FindPass ==
    /\ pc = "find_pass"
    /\ Goto("do_login")
    /\ UNCHANGED <<now, tz, dateVars, walkVars, driver, cleanup, variant, browser, url, seenUrl, slept, cookies, userAgent,
                   jar, idx, exc, lib>>

\* driver.execute_script("doLogin()")
DoLogin ==
    /\ pc = "do_login"
    /\ Goto("poll")
    /\ UNCHANGED <<now, tz, dateVars, walkVars, driver, cleanup, variant, browser, url, seenUrl, slept, cookies, userAgent,
                   jar, idx, exc, lib>>

\* the page moves on by itself (the login's redirects) or by the human's hand
Navigate ==
    /\ browser = "running"
    /\ pc \in {"poll", "settle", "input"}
    /\ url' \in Urls \ {url}
    /\ UNCHANGED <<now, tz, dateVars, walkVars, driver, cleanup, variant, pc, browser, seenUrl, slept, cookies, userAgent,
                   jar, idx, exc, lib>>

\* the loop test is false: the loop is left
PollRedirected ==
    /\ pc = "poll"
    /\ seenUrl' = url
    /\ PollExit(url)
    /\ Goto("settle")
    /\ UNCHANGED <<now, tz, dateVars, walkVars, driver, cleanup, variant, browser, url, slept, cookies, userAgent, jar, idx,
                   exc, lib>>

\* the loop test is true: time.sleep(1) and test again
PollSleep ==
    /\ pc = "poll"
    /\ seenUrl' = url
    /\ ~PollExit(url)
    /\ slept' = IF slept < MaxSlept THEN slept + 1 ELSE slept
    /\ Goto("poll")
    /\ UNCHANGED <<now, tz, dateVars, walkVars, driver, cleanup, variant, browser, url, cookies, userAgent, jar, idx, exc,
                   lib>>

\* print("Login successful."); time.sleep(1)
Settle ==
    /\ pc = "settle"
    /\ Goto("cookies")
    /\ UNCHANGED <<now, tz, dateVars, walkVars, driver, cleanup, variant, browser, url, seenUrl, slept, cookies, userAgent,
                   jar, idx, exc, lib>>

\* input("Press Enter after you have successfully logged in...")
InputWait ==
    /\ pc = "input"
    /\ Goto("cookies")
    /\ UNCHANGED <<now, tz, dateVars, walkVars, driver, cleanup, variant, browser, url, seenUrl, slept, cookies, userAgent,
                   jar, idx, exc, lib>>

\* cookies = driver.get_cookies()
GetCookies ==
    /\ pc = "cookies"
    /\ cookies' \in SeqsUpTo(BrowserCookies, MaxLen)
    /\ Goto("user_agent")
    /\ UNCHANGED <<now, tz, dateVars, walkVars, driver, cleanup, variant, browser, url, seenUrl, slept, userAgent, jar, idx,
                   exc, lib>>

\* user_agent = driver.execute_script("return navigator.userAgent")
GetUserAgent ==
    /\ pc = "user_agent"
    /\ userAgent' \in UserAgents
    /\ Goto("session")
    /\ UNCHANGED <<now, tz, dateVars, walkVars, driver, cleanup, variant, browser, url, seenUrl, slept, cookies, jar, idx,
                   exc, lib>>

\* session = requests.Session()
NewSession ==
    /\ pc = "session"
    /\ jar' = <<>>
    /\ idx' = 1
    /\ Goto("transfer")
    /\ UNCHANGED <<now, tz, dateVars, walkVars, driver, cleanup, variant, browser, url, seenUrl, slept, cookies, userAgent,
                   exc, lib>>

\* for cookie in cookies: session.cookies.set(...)
TransferCookie ==
    /\ pc = "transfer"
    /\ idx <= Len(cookies)
    /\ jar' = CookieSet(jar, cookies[idx])
    /\ idx' = idx + 1
    /\ Goto("transfer")
    /\ UNCHANGED <<now, tz, dateVars, walkVars, driver, cleanup, variant, browser, url, seenUrl, slept, cookies, userAgent,
                   exc, lib>>

\* the for loop is exhausted
TransferDone ==
    /\ pc = "transfer"
    /\ idx > Len(cookies)
    /\ Goto("headers")
    /\ UNCHANGED <<now, tz, dateVars, walkVars, driver, cleanup, variant, browser, url, seenUrl, slept, cookies, userAgent,
                   jar, idx, exc, lib>>

\* headers = {"User-Agent": user_agent}: the try block ends normally
SetHeaders ==
    /\ pc = "headers"
    /\ Goto("finally")
    /\ UNCHANGED <<now, tz, dateVars, walkVars, driver, cleanup, variant, browser, url, seenUrl, slept, cookies, userAgent,
                   jar, idx, exc, lib>>

\* a statement of the try block raises
Fail ==
    /\ pc \in TrySteps
    /\ \E kind \in Raisable :
          /\ exc' = kind
          /\ Goto(AfterFailure(variant, kind))
    /\ UNCHANGED <<now, tz, dateVars, walkVars, driver, cleanup, variant, browser, url, seenUrl, slept, cookies, userAgent,
                   jar, idx, lib>>

\* except Exception as e: print(...); raise e
ExceptHandler ==
    /\ pc = "except"
    /\ Goto("finally")
    /\ UNCHANGED <<now, tz, dateVars, walkVars, driver, cleanup, variant, browser, url,
                   seenUrl, slept, cookies, userAgent, jar, idx, exc, lib>>

\* the print of the except handler raises: the new exception replaces the
\* pending one and leaves through the finally block
ExceptHandlerFails ==
    /\ pc = "except"
    /\ \E kind \in Raisable : exc' = kind
    /\ Goto("finally")
    /\ UNCHANGED <<now, tz, dateVars, walkVars, driver, cleanup, variant, browser, url,
                   seenUrl, slept, cookies, userAgent, jar, idx, lib>>

\* the browser after a driver.quit() that returned
AfterQuit(state) == "quit"

\* finally: driver.quit(); print(...); then the pending exception, if any,
\* goes on
Finally ==
    /\ pc = "finally"
    /\ browser' = AfterQuit(browser)
    /\ cleanup' = "done"
    /\ Goto(IF exc = "none" THEN "return" ELSE "raised")
    /\ UNCHANGED <<now, tz, dateVars, walkVars, driver, variant, url, seenUrl, slept,
                   cookies, userAgent, jar, idx, exc, lib>>

\* driver.quit() raises, before or after it has ended the browser: the new
\* exception leaves the finally block and reaches the caller
FinallyQuitFails ==
    /\ pc = "finally"
    /\ browser' \in {"running", "quit"}
    /\ cleanup' = "failed"
    /\ \E kind \in Raisable : exc' = kind
    /\ Goto("raised")
    /\ UNCHANGED <<now, tz, dateVars, walkVars, driver, variant, url, seenUrl, slept,
                   cookies, userAgent, jar, idx, lib>>

\* driver.quit() returns and the print after it raises
FinallyPrintFails ==
    /\ pc = "finally"
    /\ browser' = AfterQuit(browser)
    /\ cleanup' = "done"
    /\ \E kind \in Raisable : exc' = kind
    /\ Goto("raised")
    /\ UNCHANGED <<now, tz, dateVars, walkVars, driver, variant, url, seenUrl, slept,
                   cookies, userAgent, jar, idx, lib>>

\* return LibQuery(session, headers)
Return ==
    /\ pc = "return"
    /\ lib' = LibQuery(jar, userAgent)
    /\ Goto("returned")
    /\ UNCHANGED <<now, tz, dateVars, walkVars, driver, cleanup, variant, browser, url, seenUrl, slept, cookies, userAgent,
                   jar, idx, exc>>

\* a KeyboardInterrupt arrives while the return statement runs (inside
\* LibQuery.__init__): the call ends with it and returns no LibQuery; the
\* finally block has already run
ReturnFails ==
    /\ pc = "return"
    /\ exc' = "KeyboardInterrupt"
    /\ Goto("raised")
    /\ UNCHANGED <<now, tz, dateVars, walkVars, driver, cleanup, variant,
                   browser, url, seenUrl, slept, cookies, userAgent, jar, idx,
                   lib>>

LoginStep ==
    \/ StartBrowser \/ StartBrowserFails \/ PageLoad \/ FindUser \/ FindPass \/ DoLogin
    \/ Navigate \/ PollRedirected \/ PollSleep \/ Settle \/ InputWait
    \/ GetCookies \/ GetUserAgent \/ NewSession \/ TransferCookie
    \/ TransferDone \/ SetHeaders \/ Fail \/ ExceptHandler \/ ExceptHandlerFails \/ Finally
    \/ FinallyQuitFails \/ FinallyPrintFails
    \/ Return \/ ReturnFails

----------------------------------------------------------------------------
(* LibQuery: the JSON API as the client sees it *)

LIBRARY_LIST_URL == LIBRARY_PREFIX \o "/api.php/areas/1/tree/1"
LIBRARY_AREAS_URL == LIBRARY_PREFIX \o "/api.php/areas/"
LIBRARY_SEATS_URL == LIBRARY_PREFIX \o "/api.php/spaces_old/"
LIBRARY_DAYS_URL == LIBRARY_PREFIX \o "/api.php/areadays/"

\* str(n) for n >= 0
RECURSIVE Str(_)
Str(n) == IF n < 10 THEN Digit[n + 1] ELSE Str(n \div 10) \o Digit[(n % 10) + 1]

\* s[a:b] for 0 <= a <= b
PySlice(s, a, b) == SubSeq(s, a + 1, IF b < Len(s) THEN b ELSE Len(s))

\* [f(x) for x in s]
MapSeq(s, F(_)) == [i \in 1..Len(s) |-> F(s[i])]

\* sorted(s, key=lambda x: x.id): stable, ascending
RECURSIVE InsertById(_, _)
InsertById(sorted, x) ==
    IF sorted = <<>> THEN <<x>>
    ELSE IF sorted[Len(sorted)].id <= x.id THEN Append(sorted, x)
    ELSE Append(InsertById(SubSeq(sorted, 1, Len(sorted) - 1), x),
                sorted[Len(sorted)])

RECURSIVE SortedByIdOf(_)
SortedByIdOf(s) ==
    IF s = <<>> THEN <<>>
    ELSE InsertById(SortedByIdOf(SubSeq(s, 1, Len(s) - 1)), s[Len(s)])

\* A bug the section list could have: the list is returned in payload order.
SortedByIdNoSort(s) == s

SortedById(s) == SortedByIdOf(s)

\* the answers of the HTTP layer: status code, whether the body decodes as
\* JSON, and the decoded envelope
HttpStatuses == {200, 500}
EnvelopeStatuses == {0, 1}

Envelope(status, data) == [status |-> status, data |-> data]

Answers(datas) ==
    { [status_code |-> c, json_ok |-> j, json |-> Envelope(s, d)] :
        c \in HttpStatuses, j \in BOOLEAN, s \in EnvelopeStatuses, d \in datas }

\* what the server answers if it is asked a second time: the same payload,
\* successfully
RetryAnswer(first) ==
    [status_code |-> 200, json_ok |-> TRUE,
     json |-> Envelope(1, first.json.data)]

\* the answers one first answer stands for: the first and the one to a retry
Server(first) == <<first, RetryAnswer(first)>>

\* one answer stands for each way of failing and for success
Outcomes(datas) ==
    { a \in Answers(datas) :
        \/ a.status_code = 200 /\ a.json_ok
        \/ a.status_code = 500 /\ a.json_ok /\ a.json.status = 1
        \/ a.status_code = 200 /\ ~a.json_ok /\ a.json.status = 1 }

Raised(error, n) == [ok |-> FALSE, error |-> error, value |-> <<>>, gets |-> n]
Returned(value, n) == [ok |-> TRUE, error |-> "", value |-> value, gets |-> n]

NoEnvelope == Envelope(-1, [list |-> <<>>])

\* A bug the fetch could have: a failed GET is tried once more.
GetJsonRetry(srv) ==
    LET Try(n) ==
            LET response == srv[n]
            IN  IF response.status_code # 200 THEN Raised("AssertionError", n)
                ELSE IF ~response.json_ok THEN Raised("JSONDecodeError", n)
                ELSE IF response.json.status # 1 THEN Raised("AssertionError", n)
                ELSE Returned(response.json, n)
    IN IF Try(1).ok THEN Try(1) ELSE Try(2)

\* A bug the fetch could have: the envelope is rebuilt around the HTTP status.
GetJsonHttpStatus(srv) ==
    LET response == srv[1]
    IN  IF response.status_code # 200 THEN Raised("AssertionError", 1)
        ELSE IF ~response.json_ok THEN Raised("JSONDecodeError", 1)
        ELSE IF response.json.status # 1 THEN Raised("AssertionError", 1)
        ELSE Returned(Envelope(response.status_code, response.json.data), 1)

\* LibQuery.get_json: one session.get, two assertions, the decoded body
GetJson(srv) ==
    LET response == srv[1]
    IN  IF response.status_code # 200 THEN Raised("AssertionError", 1)
        ELSE IF ~response.json_ok THEN Raised("JSONDecodeError", 1)
        ELSE IF response.json.status # 1 THEN Raised("AssertionError", 1)
        ELSE Returned(response.json, 1)

\* A bug the validity filter could have: any non-zero flag counts as valid.
IsValidTruthy(data) == data.isValid # 0

\* if data["isValid"] == 1
IsValid(data) == data.isValid = 1

\* the result of an operation, given the fetch and what is made of its value
Finish(fetch, value) ==
    [outcome |-> "returned", fetched |-> fetch.value, gets |-> fetch.gets,
     ret |-> value]
Abort(fetch) ==
    [outcome |-> "raised", fetched |-> IF fetch.ok THEN fetch.value ELSE NoEnvelope,
     gets |-> fetch.gets, ret |-> <<>>]

(* get_library_list *)

LibraryIds == {1, 2}
ValidityFlags == {0, 1, 2}

LibraryEntries ==
    { [id |-> i, name |-> "lib" \o Str(i), nameMerge |-> "lib" \o Str(i),
       enname |-> "Library " \o Str(i), ennameMerge |-> "Library " \o Str(i),
       isValid |-> v] : i \in LibraryIds, v \in ValidityFlags }

Library(data) ==
    [id |-> data.id, name |-> data.name, nameMerge |-> data.nameMerge,
     enname |-> data.enname, ennameMerge |-> data.ennameMerge]

GetLibraryList(srv) ==
    LET response_json == GetJson(srv)
    IN  IF ~response_json.ok THEN Abort(response_json)
        ELSE LET data_list == response_json.value.data.list
             IN Finish(response_json, MapSeq(SelectSeq(data_list, IsValid), Library))

(* get_library_floors *)

FloorIds == {3, 4}

FloorEntries ==
    { [id |-> i, name |-> "F" \o Str(i), enname |-> "Floor " \o Str(i),
       isValid |-> v] : i \in FloorIds, v \in ValidityFlags }

LibraryFloor(data, library) ==
    [id |-> data.id, name |-> data.name, enname |-> data.enname,
     parent |-> library.id]

GetLibraryFloors(srv, library) ==
    LET response_json == GetJson(srv)
        Floor(data) == LibraryFloor(data, library)
    IN  IF ~response_json.ok THEN Abort(response_json)
        ELSE IF response_json.value.status # 1 THEN Abort(response_json)
        ELSE LET data_list == response_json.value.data.list.childArea
             IN Finish(response_json, MapSeq(SelectSeq(data_list, IsValid), Floor))

(* get_library_sections *)

SectionIds == {2, 5}

\* (isValid, TotalCount, UnavailableSpace) of the entries explored
SectionCounts == { <<1, 10, 3>>, <<1, 4, 4>>, <<0, 10, 3>>, <<2, 4, 4>>,
                   <<1, 4, 11>>, <<1, 10, -1>> }

SectionEntries ==
    { [id |-> i, name |-> "S" \o Str(i), enname |-> "Section " \o Str(i),
       TotalCount |-> c[2], UnavailableSpace |-> c[3], isValid |-> c[1]] :
        i \in SectionIds, c \in SectionCounts }

\* A bug the availability could have: it is clamped to 0..TotalCount.
AvailableClamped(data) ==
    LET a == data.TotalCount - data.UnavailableSpace
    IN IF a < 0 THEN 0 ELSE IF a > data.TotalCount THEN data.TotalCount ELSE a

\* available=data["TotalCount"] - data["UnavailableSpace"]
Available(data) == data.TotalCount - data.UnavailableSpace

LibrarySection(data, floor) ==
    [id |-> data.id, name |-> data.name, enname |-> data.enname,
     total |-> data.TotalCount, available |-> Available(data),
     parent |-> floor.id]

SectionsUrl(floor, date) ==
    LIBRARY_AREAS_URL \o Str(floor.id) \o "/date/" \o date

GetLibrarySections(srv, floor) ==
    LET response_json == GetJson(srv)
        Section(data) == LibrarySection(data, floor)
    IN  IF ~response_json.ok THEN Abort(response_json)
        ELSE LET data_list == response_json.value.data.list.childArea
             IN Finish(response_json,
                       SortedById(MapSeq(SelectSeq(data_list, IsValid), Section)))

(* get_library_day *)

DayIds == {7, 8}
DayStrings == {"2024-11-03", "2024-11-04", "2024-03-01"}

\* the opening and closing timestamps the API sends, by segment id
Opening == [i \in DayIds |-> IF i = 7 THEN " 08:00:00.000000" ELSE " 09:30:00.000000"]
Closing == [i \in DayIds |-> IF i = 7 THEN " 22:00:00.000000" ELSE " 21:30:00.000000"]

DayEntries ==
    { [id |-> i, day |-> d, startTime |-> [date |-> d \o Opening[i]],
       endTime |-> [date |-> d \o Closing[i]]] : i \in DayIds, d \in DayStrings }

LibraryDay(data, day) ==
    [id |-> data.id, date |-> data.day,
     startTime |-> PySlice(data.startTime.date, 11, 16),
     endTime |-> PySlice(data.endTime.date, 11, 16),
     day |-> day]

\* A bug the cardinality check could have: any non-empty match is accepted.
ExactlyOneOrMore(the_day) == Len(the_day) >= 1

\* assert len(the_day) == 1
ExactlyOne(the_day) == Len(the_day) = 1

GetLibraryDay(srv, section, day, date) ==
    LET response_json == GetJson(srv)
        OnDate(data) == data.day = date
        Segment(data) == LibraryDay(data, day)
    IN  IF ~response_json.ok THEN Abort(response_json)
        ELSE LET data_list == response_json.value.data.list
                 the_day == MapSeq(SelectSeq(data_list, OnDate), Segment)
             IN IF ~ExactlyOne(the_day) THEN Abort(response_json)
                ELSE Finish(response_json, <<the_day[1]>>)

(* get_library_seats *)

SeatIds == {11, 12}
SeatStatuses == {1, 6, 9}

SeatEntries ==
    { [id |-> i, name |-> Str(i), area_type |-> 1, status |-> st] :
        i \in SeatIds, st \in SeatStatuses }

LibrarySeat(data, section) ==
    [id |-> data.id, name |-> data.name, type |-> data.area_type,
     status |-> data.status, parent |-> section.id]

\* A bug the start time could have: the clock is used for every day tag.
StartTimeAlwaysNow(clock, day) == clock

\* "startTime": now if day.day == Day.Today else day.startTime
StartTime(clock, day) == IF day.day = "Today" THEN clock ELSE day.startTime

SeatsParams(section, day, clock) ==
    [area |-> section.id, segment |-> day.id, day |-> day.date,
     startTime |-> StartTime(clock, day), endTime |-> day.endTime]

GetLibrarySeats(srv, section) ==
    LET response_json == GetJson(srv)
        Seat(data) == LibrarySeat(data, section)
    IN  IF ~response_json.ok THEN Abort(response_json)
        ELSE LET data_list == response_json.value.data.list
             IN Finish(response_json, MapSeq(data_list, Seat))

----------------------------------------------------------------------------
(* The traversal operations as steps of a caller holding a LibQuery *)

\* 2024-11-03 04:30:00 UTC and 2024-02-29 23:30:25 UTC
CallInstants == {1730608200, 1709249425}

\* the entities a caller passes in
SomeLibraries == {Library(e) : e \in {x \in LibraryEntries : x.isValid = 1}}
SomeFloors == {[id |-> 3, name |-> "F3", enname |-> "Floor 3", parent |-> 1]}
SomeSections ==
    {[id |-> 5, name |-> "S5", enname |-> "Section 5", total |-> 10,
      available |-> 7, parent |-> 3]}
SomeDays ==
    {[id |-> 7, date |-> d, startTime |-> "08:00", endTime |-> "22:00",
      day |-> t] : d \in {"2024-11-03", "2024-03-01"}, t \in Days}

NoRequest == [url |-> "", params |-> <<>>]
NoArg == [op |-> "none"]

InitWalk ==
    /\ op = "none"
    /\ arg = NoArg
    /\ server = <<>>
    /\ gets = 0
    /\ request = NoRequest
    /\ fetched = NoEnvelope
    /\ outcome = "none"
    /\ ret = <<>>

\* the effect of one call on the record of the last operation
Record(name, a, srv, req, result) ==
    /\ op' = name
    /\ arg' = a
    /\ server' = srv
    /\ request' = req
    /\ gets' = result.gets
    /\ fetched' = result.fetched
    /\ outcome' = result.outcome
    /\ ret' = result.ret

Lists(entries) == {[list |-> q] : q \in SeqsUpTo(entries, MaxLen)}
ChildAreas(entries) ==
    {[list |-> [childArea |-> q]] : q \in SeqsUpTo(entries, MaxLen)}

CallGetLibraryList ==
    /\ op = "none"
    /\ UNCHANGED <<now, tz, dateVars, loginVars>>
    /\ \E first \in Outcomes(Lists(LibraryEntries)) :
           /\ Record("get_library_list", NoArg, Server(first),
                   [url |-> LIBRARY_LIST_URL, params |-> <<>>],
                   GetLibraryList(Server(first)))

CallGetLibraryFloors ==
    /\ op = "none"
    /\ UNCHANGED <<now, tz, dateVars, loginVars>>
    /\ \E first \in Outcomes(ChildAreas(FloorEntries)), library \in SomeLibraries :
           /\ Record("get_library_floors", [library |-> library], Server(first),
                   [url |-> LIBRARY_AREAS_URL \o Str(library.id), params |-> <<>>],
                   GetLibraryFloors(Server(first), library))

CallGetLibrarySections ==
    /\ op = "none"
    /\ UNCHANGED <<now, tz, dateVars, loginVars>>
    /\ \E first \in Outcomes(ChildAreas(SectionEntries)), floor \in SomeFloors,
          day \in Days :
           /\ LET date == ResolveDate(tz, now, day)
              IN Record("get_library_sections", [floor |-> floor, day |-> day],
                      Server(first),
                      [url |-> SectionsUrl(floor, date), params |-> <<>>],
                      GetLibrarySections(Server(first), floor))

CallGetLibraryDay ==
    /\ op = "none"
    /\ UNCHANGED <<now, tz, dateVars, loginVars>>
    /\ \E first \in Outcomes(Lists(DayEntries)), section \in SomeSections,
          day \in Days :
           /\ LET date == ResolveDate(tz, now, day)
              IN Record("get_library_day", [section |-> section, day |-> day],
                      Server(first),
                      [url |-> LIBRARY_DAYS_URL \o Str(section.id), params |-> <<>>],
                      GetLibraryDay(Server(first), section, day, date))

CallGetLibrarySeats ==
    /\ op = "none"
    /\ UNCHANGED <<now, tz, dateVars, loginVars>>
    /\ \E first \in Outcomes(Lists(SeatEntries)), section \in SomeSections,
          day \in SomeDays :
           /\ LET clock == StrfHourMinute(LocalTime(tz, now))
              IN Record("get_library_seats", [section |-> section, day |-> day],
                      Server(first),
                      [url |-> LIBRARY_SEATS_URL,
                       params |-> SeatsParams(section, day, clock)],
                      GetLibrarySeats(Server(first), section))

WalkStep ==
    \/ CallGetLibraryList \/ CallGetLibraryFloors \/ CallGetLibrarySections
    \/ CallGetLibraryDay \/ CallGetLibrarySeats

----------------------------------------------------------------------------
(* Specifications *)

\* the login, from the call to its return or its error
InitLoginRun == InitLogin /\ InitWalk /\ InitDate /\ InitClock(CallInstants)
SpecLogin == InitLoginRun /\ [][LoginStep]_vars

\* one traversal operation called on the LibQuery a login returned
InitWalkRun == LoggedIn /\ InitWalk /\ InitDate /\ InitClock(CallInstants)
Spec == InitWalkRun /\ [][WalkStep]_vars

\* the date resolved for each day tag at one instant
InitDateRun == LoggedIn /\ InitWalk /\ InitDate /\ InitClock(Instants)
DateNext == ResolveToday \/ ResolveTomorrow
SpecDate == InitDateRun /\ [][DateNext]_vars

----------------------------------------------------------------------------
(* Properties of the login (SpecLogin) *)

\* the call has come back to its caller, with a LibQuery or with an error
BackAtCaller == pc \in {"return", "returned", "raised"}

\* C1 as claimed: in both login variants, once the browser has been started,
\* no execution returns a LibQuery or lets an error reach the caller while
\* the browser is still running.
C1_BrowserQuitBeforeLeaving ==
    /\ (BackAtCaller /\ browser # "none") => browser = "quit"
    /\ lib.made => browser = "quit"

\* C1 as amended: once webdriver.Chrome(...) has returned the driver,
\* driver.quit() has been called before the call returns a LibQuery or an
\* error reaches the caller, whichever statement of the try block or of the
\* except handler failed; the browser is still running at the caller only if
\* webdriver.Chrome(...) itself raised after launching it or driver.quit()
\* itself raised, and never when a LibQuery is returned.
C1_QuitCalledBeforeLeaving ==
    /\ (BackAtCaller /\ driver = "bound") => cleanup # "none"
    /\ (BackAtCaller /\ driver = "unbound") =>
          (cleanup = "none" /\ exc # "none" /\ ~lib.made)
    /\ (BackAtCaller /\ cleanup = "done") => browser = "quit"
    /\ (BackAtCaller /\ browser = "running") =>
          (cleanup = "failed" \/ driver = "unbound")
    /\ lib.made => (browser = "quit" /\ cleanup = "done")

\* an error of the manual variant's try block has reached the caller, the
\* browser closed by the finally block
C1_Witness ==
    /\ pc = "raised"
    /\ variant = "manual"
    /\ exc = "Exception"
    /\ driver = "bound"
    /\ cleanup = "done"
    /\ browser = "quit"

\* C2: the automatic login builds a transport context only after the poll
\* loop has seen the browser leave the unauthenticated login page for the
\* authenticated tunnel domain.
C2_ContextOnlyAfterRedirect ==
    (variant = "auto" /\ lib.made) => seenUrl \notin UnauthenticatedUrls

----------------------------------------------------------------------------
(* Properties of the traversal operations (Spec) *)

Called == outcome # "none"
First == server[1]
GoodAnswer ==
    First.status_code = 200 /\ First.json_ok /\ First.json.status = 1

\* the list the API sent for the operation called
Payload ==
    IF op \in {"get_library_floors", "get_library_sections"}
    THEN First.json.data.list.childArea
    ELSE First.json.data.list

\* C3: every traversal operation returns only if its single GET answered
\* 200 with an envelope of status 1; otherwise it raises, having issued one
\* request and no second one, and returns no entity.
C3_FailFast ==
    Called =>
        /\ gets = 1
        /\ outcome = "returned" => GoodAnswer
        /\ ~GoodAnswer => (outcome = "raised" /\ ret = <<>>)

\* a 500 answer carrying a valid entry made get_library_list raise
C3_Witness ==
    /\ op = "get_library_list"
    /\ First.status_code = 500
    /\ \E i \in 1..Len(Payload) : Payload[i].isValid = 1
    /\ outcome = "raised"

\* C4 as claimed: when the GET succeeds, get_json returns the envelope's
\* data substructure, not the whole envelope.
C4_ReturnsData == (Called /\ GoodAnswer) => fetched = First.json.data

\* C4 as amended: when the GET succeeds, get_json returns the whole decoded
\* envelope, its status field included.
C4_ReturnsEnvelope ==
    (Called /\ GoodAnswer) =>
        /\ fetched = First.json
        /\ fetched.status = 1
        /\ fetched.data = First.json.data

\* get_library_list has fetched a non-empty list successfully
C4_Witness ==
    /\ op = "get_library_list"
    /\ outcome = "returned"
    /\ Len(fetched.data.list) > 0

\* the HH:MM the API sends for a segment id, as read off its timestamps
OpeningHM == [i \in DayIds |-> IF i = 7 THEN "08:00" ELSE "09:30"]
ClosingHM == [i \in DayIds |-> IF i = 7 THEN "22:00" ELSE "21:30"]

\* the positions of the fetched day-segments whose date is the resolved one
MatchingDays ==
    {i \in 1..Len(Payload) : Payload[i].day = ResolveDate(tz, now, arg.day)}

\* C5: after a successful fetch, get_library_day returns a DaySegment if and
\* only if exactly one fetched entry has the resolved date, and it returns
\* that entry; with zero or several matches it raises and returns nothing.
C5_ExactlyOneDay ==
    (op = "get_library_day" /\ GoodAnswer) =>
        /\ (outcome = "returned") <=> (Cardinality(MatchingDays) = 1)
        /\ outcome = "returned" =>
              \E i \in MatchingDays :
                  ret = << [id |-> Payload[i].id, date |-> Payload[i].day,
                            startTime |-> OpeningHM[Payload[i].id],
                            endTime |-> ClosingHM[Payload[i].id],
                            day |-> arg.day] >>
        /\ outcome = "raised" => ret = <<>>

\* one of two fetched segments matched the date of Tomorrow and was returned
C5_Witness ==
    /\ op = "get_library_day"
    /\ arg.day = "Tomorrow"
    /\ outcome = "returned"
    /\ Len(Payload) = 2
    /\ Payload[2].day = ret[1].date
    /\ Payload[1].day # ret[1].date

SectionsReturned == op = "get_library_sections" /\ outcome = "returned"

\* C6 as claimed: every Section returned satisfies 0 <= available <= total,
\* whatever TotalCount and UnavailableSpace the valid entries carry.
C6_AvailableInRange ==
    SectionsReturned =>
        \A i \in 1..Len(ret) : 0 <= ret[i].available /\ ret[i].available <= ret[i].total

\* C6 as amended: every Section returned has the total and the difference
\* TotalCount - UnavailableSpace of a valid entry with its id, so that
\* 0 <= available <= total holds exactly when that entry has
\* 0 <= UnavailableSpace <= TotalCount.
C6_AvailableIsDifference ==
    SectionsReturned =>
        \A i \in 1..Len(ret) :
            \E j \in 1..Len(Payload) :
                /\ Payload[j].isValid = 1
                /\ Payload[j].id = ret[i].id
                /\ ret[i].total = Payload[j].TotalCount
                /\ ret[i].available + Payload[j].UnavailableSpace = ret[i].total
                /\ (0 <= ret[i].available /\ ret[i].available <= ret[i].total)
                     <=> (0 <= Payload[j].UnavailableSpace
                          /\ Payload[j].UnavailableSpace <= Payload[j].TotalCount)

\* a section was returned with fewer than zero seats available
C6_Witness ==
    /\ SectionsReturned
    /\ \E i \in 1..Len(ret) : ret[i].available < 0

\* the two sections of the end-to-end scenario, in the order the API sends them
ScenarioSections ==
    << [id |-> 5, name |-> "S5", enname |-> "Section 5", TotalCount |-> 10,
        UnavailableSpace |-> 3, isValid |-> 1],
       [id |-> 2, name |-> "S2", enname |-> "Section 2", TotalCount |-> 4,
        UnavailableSpace |-> 4, isValid |-> 1] >>

\* C8: the list get_library_sections returns is ascending by identifier;
\* the sections (5, 10, 3) and (2, 4, 4) come back as ids [2, 5] with
\* availability [0, 7].
C8_SortedById ==
    SectionsReturned =>
        /\ \A i, j \in 1..Len(ret) : i < j => ret[i].id <= ret[j].id
        /\ Payload = ScenarioSections =>
              /\ Len(ret) = 2
              /\ <<ret[1].id, ret[2].id>> = <<2, 5>>
              /\ <<ret[1].available, ret[2].available>> = <<0, 7>>

\* the scenario's payload was fetched and its sections returned
C8_Witness == SectionsReturned /\ Payload = ScenarioSections

\* how many positions of a sequence satisfy a test
CountOf(q, Test(_)) == Cardinality({i \in 1..Len(q) : Test(q[i])})

\* C9: the lists get_library_list, get_library_floors and
\* get_library_sections return hold exactly the payload entries whose
\* isValid is 1: none with another flag, and none of those dropped.
C9_ExactlyTheValid ==
    (op \in {"get_library_list", "get_library_floors", "get_library_sections"}
     /\ outcome = "returned") =>
        /\ Len(ret) = Cardinality({j \in 1..Len(Payload) : Payload[j].isValid = 1})
        /\ \A e \in {Payload[j] : j \in 1..Len(Payload)} :
              LET Same(x) == x.id = e.id /\ x.name = e.name
                  SameValid(x) == Same(x) /\ x.isValid = 1
              IN CountOf(ret, Same) = CountOf(Payload, SameValid)
        /\ \A i \in 1..Len(ret) :
              \E j \in 1..Len(Payload) :
                  Payload[j].isValid = 1 /\ Payload[j].id = ret[i].id

\* a floor flagged 2 was dropped and a floor flagged 1 was kept
C9_Witness ==
    /\ op = "get_library_floors"
    /\ outcome = "returned"
    /\ Len(Payload) = 2
    /\ Payload[1].isValid = 2
    /\ Payload[2].isValid = 1
    /\ Len(ret) = 1
    /\ ret[1].id = Payload[2].id

\* the local wall-clock time, truncated to minutes, of the instants a call
\* can be made at, by zone
WallClock ==
    [z \in {"UTC", "Asia/Shanghai", "America/New_York"} |->
        [t \in CallInstants |->
            IF z = "UTC" THEN (IF t = 1730608200 THEN "04:30" ELSE "23:30")
            ELSE IF z = "Asia/Shanghai"
            THEN (IF t = 1730608200 THEN "12:30" ELSE "07:30")
            ELSE (IF t = 1730608200 THEN "00:30" ELSE "18:30")]]

\* C10: get_library_seats sends as start time the wall-clock time truncated
\* to minutes when the day-segment is tagged Today and the segment's own
\* opening time when it is tagged Tomorrow; the end time is the segment's
\* closing time and the day is the segment's date.
C10_SeatQueryTimes ==
    (op = "get_library_seats" /\ Called) =>
        /\ arg.day.day = "Today" =>
              request.params.startTime = WallClock[tz.name][now]
        /\ arg.day.day = "Tomorrow" =>
              request.params.startTime = arg.day.startTime
        /\ request.params.endTime = arg.day.endTime
        /\ request.params.day = arg.day.date

\* seats were asked for a segment of Tomorrow, from its opening time on
C10_Witness ==
    /\ op = "get_library_seats"
    /\ outcome = "returned"
    /\ arg.day.day = "Tomorrow"
    /\ request.params.startTime = "08:00"
    /\ request.params.startTime # WallClock[tz.name][now]

----------------------------------------------------------------------------
(* Properties of the date resolver (SpecDate) *)

DigitValue(c) == CHOOSE n \in 0..9 : Digit[n + 1] = c
Number(str) ==
    LET RECURSIVE Value(_)
        Value(k) == IF k = 0 THEN 0
                    ELSE 10 * Value(k - 1) + DigitValue(SubSeq(str, k, k))
    IN Value(Len(str))

\* the calendar date a YYYY-MM-DD string denotes
ParseDate(str) ==
    [year |-> Number(SubSeq(str, 1, 4)), month |-> Number(SubSeq(str, 6, 7)),
     day |-> Number(SubSeq(str, 9, 10))]

\* C7: at every instant and in every time zone, the date string resolved for
\* Tomorrow is the one resolved for Today plus exactly one calendar day.
C7_TomorrowIsNextCalendarDay ==
    (resolved["Today"] # NoDate /\ resolved["Tomorrow"] # NoDate) =>
        resolved["Tomorrow"] = StrfDate(NextCalendarDay(ParseDate(resolved["Today"])))
====
